---- MODULE Spec2Model ----
(***************************************************************************)
(* A model of geocode_locations_google.py: the pre-geocode flag pass, the  *)
(* geocoding loop of main() with its directional-offset handling and the   *)
(* post-geocode flag merge, and a re-run of the script on its own output.  *)
(*                                                                         *)
(* Cells of the data frame are strings; NaN stands for a missing cell      *)
(* (pandas NaN / pd.NA).  Floats are carried as their Python repr.         *)
(***************************************************************************)
EXTENDS Integers, Sequences, FiniteSets, TLC

\* ------------------------------------------------------------------------
\* Strings (Python str methods used by the script)
\* ------------------------------------------------------------------------

UpperAlpha == "ABCDEFGHIJKLMNOPQRSTUVWXYZ"
LowerAlpha == "abcdefghijklmnopqrstuvwxyz"
Digits == "0123456789"
Whitespace == " \t\n\r\f"

CharAt(s, i) == SubSeq(s, i, i)

\* the characters of s, as a set of one-character strings
Chars(s) == {CharAt(s, i) : i \in 1..Len(s)}

UpperChars == Chars(UpperAlpha)
LowerChars == Chars(LowerAlpha)
DigitChars == Chars(Digits)
WhitespaceChars == Chars(Whitespace)

ToLower == [c \in UpperChars |-> CharAt(LowerAlpha, CHOOSE i \in 1..Len(UpperAlpha) : CharAt(UpperAlpha, i) = c)]
ToUpper == [c \in LowerChars |-> CharAt(UpperAlpha, CHOOSE i \in 1..Len(LowerAlpha) : CharAt(LowerAlpha, i) = c)]

\* str.lower() and str.upper() of one character
LowerChar(c) == IF c \in UpperChars THEN ToLower[c] ELSE c
UpperChar(c) == IF c \in LowerChars THEN ToUpper[c] ELSE c

RECURSIVE Lower(_)
\* str.lower()
Lower(s) == IF s = "" THEN "" ELSE LowerChar(CharAt(s, 1)) \o Lower(SubSeq(s, 2, Len(s)))

RECURSIVE Upper(_)
\* str.upper()
Upper(s) == IF s = "" THEN "" ELSE UpperChar(CharAt(s, 1)) \o Upper(SubSeq(s, 2, Len(s)))

\* `sub in s` on Python strings ('' is in every string)
Contains(s, sub) ==
    \E i \in 1..(Len(s) - Len(sub) + 1) : SubSeq(s, i, i + Len(sub) - 1) = sub

\* str.endswith
EndsWith(s, suf) ==
    Len(suf) <= Len(s) /\ SubSeq(s, Len(s) - Len(suf) + 1, Len(s)) = suf

RECURSIVE LStrip(_)
LStrip(s) ==
    IF s # "" /\ CharAt(s, 1) \in WhitespaceChars THEN LStrip(SubSeq(s, 2, Len(s))) ELSE s

RECURSIVE RStrip(_)
RStrip(s) ==
    IF s # "" /\ CharAt(s, Len(s)) \in WhitespaceChars
    THEN RStrip(SubSeq(s, 1, Len(s) - 1)) ELSE s

\* str.strip()
Strip(s) == RStrip(LStrip(s))

\* len(s.split()): the number of maximal runs of non-whitespace characters
WordCount(s) ==
    Cardinality({i \in 1..Len(s) :
        /\ CharAt(s, i) \notin WhitespaceChars
        /\ (i = 1 \/ CharAt(s, i - 1) \in WhitespaceChars)})

\* str.isupper(): at least one cased character and no lowercase one
IsUpper(s) ==
    /\ \E i \in 1..Len(s) : CharAt(s, i) \in UpperChars
    /\ \A i \in 1..Len(s) : CharAt(s, i) \notin LowerChars

\* str.isdigit()
IsDigit(s) == s # "" /\ \A i \in 1..Len(s) : CharAt(s, i) \in DigitChars

RECURSIVE Join(_, _)
\* sep.join(parts)
Join(sep, parts) ==
    IF parts = <<>> THEN ""
    ELSE IF Len(parts) = 1 THEN parts[1]
    ELSE parts[1] \o sep \o Join(sep, Tail(parts))

\* ------------------------------------------------------------------------
\* Regular expressions (the subset of Python's re the script uses).
\* A pattern is a tree of tuples; matching is Python's backtracking search:
\* M returns the match states reachable from one state in priority order,
\* so its first element is the match re.search reports.
\* A match state is <<position, group spans>>.  Under re.IGNORECASE the
\* lowercased pattern is matched against the lowercased text (the script's
\* patterns are ASCII), so a literal and a set carry both spellings.
\* ------------------------------------------------------------------------

Lit(s) == <<"lit", s, Lower(s)>>
Set(chars) == <<"set", Chars(chars), Chars(Lower(chars))>>
Cat(rs) == <<"cat", rs>>
Alt(rs) == <<"alt", rs>>
Star(r) == <<"rep", r, 0, -1>>
Plus(r) == <<"rep", r, 1, -1>>
Opt(r) == <<"rep", r, 0, 1>>
Rep(r, lo, hi) == <<"rep", r, lo, hi>>
Grp(k, r) == <<"grp", k, r>>
WordB == <<"wordb">>
EndOfText == <<"eot">>
\* \d and \s
Digit == Set(Digits)
Space == Set(Whitespace)

NoGroups == << <<0, 0>>, <<0, 0>> >>

WordChars == UpperChars \cup LowerChars \cup DigitChars \cup {"_"}

\* \b at position p of t
AtWordBoundary(t, p) ==
    LET before == p > 1 /\ CharAt(t, p - 1) \in WordChars
        after == p <= Len(t) /\ CharAt(t, p) \in WordChars
    IN before # after

RECURSIVE M(_, _, _, _), MAll(_, _, _, _), MCat(_, _, _, _), MAlt(_, _, _, _), MRep(_, _, _, _, _, _), MRepAll(_, _, _, _, _, _)

\* every state of sts continued by r, in order
MAll(r, t, ic, sts) ==
    IF sts = <<>> THEN <<>>
    ELSE M(r, t, ic, Head(sts)) \o MAll(r, t, ic, Tail(sts))

MCat(rs, t, ic, sts) ==
    IF rs = <<>> \/ sts = <<>> THEN sts ELSE MCat(Tail(rs), t, ic, MAll(Head(rs), t, ic, sts))

MAlt(rs, t, ic, st) ==
    IF rs = <<>> THEN <<>> ELSE M(Head(rs), t, ic, st) \o MAlt(Tail(rs), t, ic, st)

MRepAll(r, lo, hi, t, ic, sts) ==
    IF sts = <<>> THEN <<>>
    ELSE MRep(r, lo, hi, t, ic, Head(sts)) \o MRepAll(r, lo, hi, t, ic, Tail(sts))

\* greedy r{lo,hi}; hi = -1 is unbounded.  An iteration that consumes
\* nothing is not repeated.
MRep(r, lo, hi, t, ic, st) ==
    LET more == IF hi = 0 THEN <<>>
                ELSE LET once == SelectSeq(M(r, t, ic, st), LAMBDA s : s[1] > st[1])
                         lo1 == IF lo > 0 THEN lo - 1 ELSE 0
                         hi1 == IF hi > 0 THEN hi - 1 ELSE hi
                     IN MRepAll(r, lo1, hi1, t, ic, once)
    IN more \o (IF lo <= 0 THEN <<st>> ELSE <<>>)

\* t is the text, lowercased when ic
M(r, t, ic, st) ==
    LET p == st[1] IN
    CASE r[1] = "lit" ->
            LET lit == IF ic THEN r[3] ELSE r[2]
                q == p + Len(lit)
            IN IF q - 1 <= Len(t) /\ SubSeq(t, p, q - 1) = lit
               THEN << <<q, st[2]>> >> ELSE <<>>
      [] r[1] = "set" ->
            IF p <= Len(t) /\ CharAt(t, p) \in (IF ic THEN r[3] ELSE r[2])
            THEN << <<p + 1, st[2]>> >> ELSE <<>>
      [] r[1] = "cat" -> MCat(r[2], t, ic, <<st>>)
      [] r[1] = "alt" -> MAlt(r[2], t, ic, st)
      [] r[1] = "rep" -> MRep(r[2], r[3], r[4], t, ic, st)
      [] r[1] = "grp" ->
            LET inner == M(r[3], t, ic, st)
            IN [k \in 1..Len(inner) |->
                    <<inner[k][1], [inner[k][2] EXCEPT ![r[2]] = <<p, inner[k][1]>>]>>]
      [] r[1] = "wordb" -> IF AtWordBoundary(t, p) THEN <<st>> ELSE <<>>
      [] r[1] = "eot" -> IF p = Len(t) + 1 THEN <<st>> ELSE <<>>

Fold(t, ic) == IF ic THEN Lower(t) ELSE t

\* re.search(r, t) is not None; ic: flags=re.IGNORECASE
Search(r, t, ic) ==
    LET tl == Fold(t, ic)
    IN \E i \in 1..(Len(t) + 1) : M(r, tl, ic, <<i, NoGroups>>) # <<>>

\* the match object of re.search(r, t): its leftmost start, then the first
\* match in backtracking order; defined when Search(r, t, ic)
MatchOf(r, t, ic) ==
    LET tl == Fold(t, ic)
        starts == {i \in 1..(Len(t) + 1) : M(r, tl, ic, <<i, NoGroups>>) # <<>>}
        first == CHOOSE i \in starts : \A j \in starts : i <= j
    IN Head(M(r, tl, ic, <<first, NoGroups>>))

\* match.end() as a 0-based offset, match.group(k)
MatchEnd(m) == m[1] - 1
MatchGroup(m, t, k) == SubSeq(t, m[2][k][1], m[2][k][2] - 1)

\* ------------------------------------------------------------------------
\* Cell values
\* ------------------------------------------------------------------------

\* a missing cell: pandas NaN / pd.NA (read_csv reads the text NaN as NaN too)
NaN == "NaN"
\* Python's None
None == "None"

\* pd.notna / pd.isna
notna(v) == v # NaN
isna(v) == v = NaN

\* str(v) of a cell: str(float('nan')) is 'nan'
Str(v) == IF v = NaN THEN "nan" ELSE v

\* truth value of a str
StrTruthy(s) == s \notin {None, ""}

\* truth value of a number (int or float, carried as its repr) or None
NumTruthy(v) == v \notin {None, "0", "0.0", "-0.0"}

RECURSIVE StripLeadingZeros(_)
StripLeadingZeros(s) ==
    IF Len(s) > 1 /\ CharAt(s, 1) = "0" THEN StripLeadingZeros(SubSeq(s, 2, Len(s))) ELSE s

RECURSIVE StripTrailingZeros(_)
StripTrailingZeros(s) ==
    IF Len(s) > 1 /\ CharAt(s, Len(s)) = "0"
    THEN StripTrailingZeros(SubSeq(s, 1, Len(s) - 1)) ELSE s

\* repr(float(s)) for s matching \d+\.?\d* (below 1e16, where repr has no exponent)
Float(s) ==
    LET dots == {i \in 1..Len(s) : CharAt(s, i) = "."}
        dot == IF dots = {} THEN Len(s) + 1 ELSE CHOOSE i \in dots : TRUE
        whole == StripLeadingZeros(SubSeq(s, 1, dot - 1))
        frac == SubSeq(s, dot + 1, Len(s))
    IN whole \o "." \o (IF frac = "" THEN "0" ELSE StripTrailingZeros(frac))

\* ------------------------------------------------------------------------
\* construct_address, extract_base_location
\* ------------------------------------------------------------------------

\* pd.notna(row.get(f)) and str(row[f]).strip()
HasField(row, f) == notna(row[f]) /\ StrTruthy(Strip(Str(row[f])))

construct_address(row) ==
    LET prec == IF HasField(row, "prec_location")
                THEN <<Strip(Str(row.prec_location))>> ELSE <<>>
        city == IF HasField(row, "city") THEN <<Strip(Str(row.city))>> ELSE <<>>
        c == Strip(Str(row.county))
        county == IF HasField(row, "county")
                  THEN <<IF ~EndsWith(Lower(c), "county") THEN c \o " County" ELSE c>>
                  ELSE <<>>
        state == IF HasField(row, "province_state")
                 THEN <<Strip(Str(row.province_state))>> ELSE <<>>
        country == IF HasField(row, "country") THEN <<Strip(Str(row.country))>> ELSE <<"USA">>
        parts == prec \o city \o county \o state \o country
    IN IF parts # <<>> THEN Join(", ", parts) ELSE None

\* \d+\.?\d*\s*mi[les]*\s+
DistanceMi == <<Plus(Digit), Opt(Lit(".")), Star(Digit), Star(Space), Lit("mi"), Star(Set("les")), Plus(Space)>>
\* (\d+\.?\d*)\s*mi[les]*\s+
DistanceMiGroup == <<Grp(1, Cat(<<Plus(Digit), Opt(Lit(".")), Star(Digit)>>)), Star(Space), Lit("mi"), Star(Set("les")), Plus(Space)>>
\* [NSEW]{1,3}
CompassLetters == Rep(Set("NSEW"), 1, 3)
\* north|south|east|west|ne|nw|se|sw
CompassWords == Alt(<<Lit("north"), Lit("south"), Lit("east"), Lit("west"), Lit("ne"), Lit("nw"), Lit("se"), Lit("sw")>>)

extract_patterns ==
    << Cat(DistanceMi \o <<CompassLetters, Plus(Space), Lit("of"), Plus(Space)>>),
       Cat(DistanceMi \o <<Grp(1, CompassWords), Plus(Space), Lit("of"), Plus(Space)>>) >>

RECURSIVE extract_loop(_, _)
extract_loop(address, k) ==
    IF k > Len(extract_patterns) THEN address
    ELSE IF Search(extract_patterns[k], address, TRUE)
         THEN Strip(SubSeq(address, MatchEnd(MatchOf(extract_patterns[k], address, TRUE)) + 1, Len(address)))
         ELSE extract_loop(address, k + 1)

extract_base_location(address) ==
    IF ~StrTruthy(address) THEN address ELSE extract_loop(address, 1)

\* ------------------------------------------------------------------------
\* parse_directional_offset, apply_offset
\* ------------------------------------------------------------------------

parse_patterns ==
    << Cat(DistanceMiGroup \o <<Grp(2, CompassLetters), Plus(Space), Lit("of")>>),
       Cat(DistanceMiGroup \o <<Grp(2, CompassWords), Plus(Space), Lit("of")>>) >>

direction_map ==
    [d \in {"NORTH", "SOUTH", "EAST", "WEST", "NORTHEAST", "NORTHWEST", "SOUTHEAST", "SOUTHWEST"} |->
        CASE d = "NORTH" -> "N" [] d = "SOUTH" -> "S" [] d = "EAST" -> "E" [] d = "WEST" -> "W"
          [] d = "NORTHEAST" -> "NE" [] d = "NORTHWEST" -> "NW"
          [] d = "SOUTHEAST" -> "SE" [] d = "SOUTHWEST" -> "SW"]

direction_bearings ==
    ( "N" :> "0" @@ "NNE" :> "22.5" @@ "NE" :> "45" @@ "ENE" :> "67.5" @@
      "E" :> "90" @@ "ESE" :> "112.5" @@ "SE" :> "135" @@ "SSE" :> "157.5" @@
      "S" :> "180" @@ "SSW" :> "202.5" @@ "SW" :> "225" @@ "WSW" :> "247.5" @@
      "W" :> "270" @@ "WNW" :> "292.5" @@ "NW" :> "315" @@ "NNW" :> "337.5" )

\* dict.get(key, default)
DictGet(dict, key, default) == IF key \in DOMAIN dict THEN dict[key] ELSE default

RECURSIVE parse_loop(_, _)
parse_loop(text, k) ==
    IF k > Len(parse_patterns) THEN <<None, None>>
    ELSE IF Search(parse_patterns[k], text, TRUE)
         THEN LET m == MatchOf(parse_patterns[k], text, TRUE)
                  distance == Float(MatchGroup(m, text, 1))
                  token == Upper(MatchGroup(m, text, 2))
                  direction == DictGet(direction_map, token, token)
                  bearing == DictGet(direction_bearings, direction, None)
              IN IF bearing # None THEN <<distance, bearing>> ELSE parse_loop(text, k + 1)
         ELSE parse_loop(text, k + 1)

parse_directional_offset(text) ==
    IF ~StrTruthy(text) THEN <<None, None>> ELSE parse_loop(text, 1)

\* The destination point of the forward-azimuth formula, kept as a term in
\* its four arguments (R = 3959 miles): <<new_lat, new_lon>>.
apply_offset(lat, lon, distance_miles, bearing_degrees) ==
    LET args == "(" \o lat \o "," \o lon \o "," \o distance_miles \o "," \o bearing_degrees \o ")"
    IN <<"new_lat" \o args, "new_lon" \o args>>

\* ------------------------------------------------------------------------
\* flag_potential_issues
\* ------------------------------------------------------------------------

\* \bword\b
Word(w) == Cat(<<WordB, Lit(w), WordB>>)

flag_directional_patterns ==
    << Cat(DistanceMi \o <<CompassLetters, Plus(Space), Lit("of")>>),
       Cat(DistanceMi \o <<CompassLetters, EndOfText>>),
       Cat(DistanceMi \o <<Grp(1, CompassWords), Plus(Space), Lit("of")>>) >>

vague_refs ==
    << Word("behind"), Word("at"), Cat(<<WordB, Lit("vic"), Opt(Lit(".")), WordB>>), Word("near") >>

water_features ==
    << Word("river"), Word("lake"), Word("creek"), Word("bay"),
       Word("beach"), Word("shore"), Word("falls"), Word("pond") >>

park_keywords ==
    << Word("park"), Word("forest"), Word("wilderness"), Word("preserve"),
       Word("refuge"), Word("national"), Word("state park"), Word("grove"),
       Word("seashore"), Word("monument"), Word("station"), Word("dunes") >>

\* any(re.search(pattern, text) for pattern in patterns)
AnySearch(patterns, text) == \E k \in 1..Len(patterns) : Search(patterns[k], text, FALSE)

\* AnyKeyword without the .lower() of the flag
AnyKeywordCaseSensitive(keywords, flag) == \E kw \in keywords : Contains(flag, kw)

\* any(keyword in flag.lower() for keyword in keywords)
AnyKeyword(keywords, flag) == \E kw \in keywords : Contains(Lower(flag), kw)

\* the list `flags` of flag_potential_issues before the status is determined
Flags(row) ==
    LET has_city == HasField(row, "city")
        has_prec_location == HasField(row, "prec_location")
        has_county == HasField(row, "county")
        has_state == HasField(row, "province_state")
        prec_loc_text == Strip(Str(row.prec_location))
        city_text == Strip(Str(row.city))
        location_text == Lower(prec_loc_text \o " " \o city_text)
        county_text == Str(row.county)
        f1 == IF ~has_city /\ ~has_prec_location
              THEN <<"County/state only - very vague">> ELSE <<>>
        f2 == IF ~has_state THEN <<"Missing state - may be ambiguous">> ELSE <<>>
        f4 == IF has_prec_location /\ AnySearch(flag_directional_patterns, location_text)
              THEN <<"Directional offset - API may ignore distance/direction">> ELSE <<>>
        f5 == IF has_prec_location /\ AnySearch(vague_refs, location_text)
              THEN <<"Vague reference point (behind/at/vic/near)">> ELSE <<>>
        f6 == IF (has_prec_location \/ has_city) /\ AnySearch(water_features, location_text)
              THEN <<"Water feature - may use centerline/centroid">> ELSE <<>>
        f7 == IF AnySearch(park_keywords, location_text)
              THEN IF WordCount(location_text) <= 3
                   THEN <<"Park/natural area (just name - may use geometric center)">>
                   ELSE <<"Park/natural area with detail (may still use center)">>
              ELSE <<>>
        f8 == IF has_county /\ (Contains(county_text, "/") \/ Contains(Lower(county_text), " or "))
              THEN <<"Multiple counties listed">> ELSE <<>>
        f9 == IF has_prec_location
              THEN IF Len(prec_loc_text) <= 6 /\ Contains(prec_loc_text, ".")
                   THEN <<"Abbreviated location name">>
                   ELSE IF Len(prec_loc_text) <= 4 /\ IsUpper(prec_loc_text) /\ ~IsDigit(prec_loc_text)
                        THEN <<"Possible acronym/abbreviation">> ELSE <<>>
              ELSE <<>>
        f10 == IF has_prec_location
                  /\ (Contains(prec_loc_text, "(") \/ Contains(prec_loc_text, "[")
                      \/ Contains(prec_loc_text, ")") \/ Contains(prec_loc_text, "]"))
               THEN <<"Contains parenthetical info - may confuse geocoder">> ELSE <<>>
    IN f1 \o f2 \o f4 \o f5 \o f6 \o f7 \o f8 \o f9 \o f10

critical_keywords == {"county/state only", "missing state"}
informational_keywords == {"park", "water feature", "parenthetical"}

\* the single-flag branch: "directional offset" in flag or "vague reference"
\* in flag or "abbreviated" in flag, for flag = flags[0].lower()
SingleFlagIsConcerning(flag) ==
    Contains(flag, "directional offset") \/ Contains(flag, "vague reference") \/ Contains(flag, "abbreviated")

\* the status determined from the list of flags
FlagStatus(flags) ==
    IF flags = <<>> THEN "OK"
    ELSE IF \E k \in 1..Len(flags) : AnyKeyword(critical_keywords, flags[k]) THEN "WARNING"
    ELSE IF Len(flags) >= 2
         THEN IF \A k \in 1..Len(flags) : AnyKeyword(informational_keywords, flags[k])
              THEN "OK" ELSE "REVIEW"
    ELSE IF SingleFlagIsConcerning(Lower(flags[1])) THEN "REVIEW" ELSE "OK"

\* <<flag_status, flag_reason>>
flag_potential_issues(row) ==
    LET flags == Flags(row) IN <<FlagStatus(flags), Join("; ", flags)>>

\* ------------------------------------------------------------------------
\* should_geocode, is_too_vague
\* ------------------------------------------------------------------------

\* latitude and longitude are floats after pd.to_numeric(errors='coerce'),
\* so the isinstance(lat, str) alternative never applies
should_geocode(row) == isna(row.latitude) \/ isna(row.longitude)

\* is_too_vague looking at the city only
is_too_vague_city_only(row) == ~HasField(row, "city")

is_too_vague(row) == ~(HasField(row, "city") \/ HasField(row, "prec_location"))

\* ------------------------------------------------------------------------
\* geocode_address_google
\* ------------------------------------------------------------------------

\* float(v) of a JSON number, as its repr
PyFloat(v) == IF CharAt(v, 1) = "-" THEN "-" \o Float(SubSeq(v, 2, Len(v))) ELSE Float(v)

NoResult == <<None, None, None, None>>

\* What requests.get(...) and response.json() give: exc is the exception
\* raised ("" for none), status and results are data["status"] and
\* data["results"]; a result holds geometry.location.lat/lng and, None when
\* the key is absent, geometry.location_type and formatted_address.
\* geometry = FALSE is a result without the geometry key (KeyError).
\* <<lat, lon, location_type, formatted_address>>
geocode_address_google(resp) ==
    IF resp.exc # "" THEN NoResult
    ELSE IF resp.status = "OK" /\ resp.results # <<>>
         THEN LET result == resp.results[1]
              IN IF ~result.geometry THEN NoResult
                 ELSE << PyFloat(result.lat), PyFloat(result.lng),
                         IF result.location_type = None THEN "UNKNOWN" ELSE result.location_type,
                         IF result.formatted_address = None THEN "" ELSE result.formatted_address >>
         ELSE NoResult

\* ------------------------------------------------------------------------
\* main: the post-geocoding flags and their merge
\* ------------------------------------------------------------------------

state_abbrev ==
    ( "alabama" :> "al" @@ "alaska" :> "ak" @@ "arizona" :> "az" @@ "arkansas" :> "ar" @@
      "california" :> "ca" @@ "colorado" :> "co" @@ "connecticut" :> "ct" @@ "delaware" :> "de" @@
      "florida" :> "fl" @@ "georgia" :> "ga" @@ "hawaii" :> "hi" @@ "idaho" :> "id" @@
      "illinois" :> "il" @@ "indiana" :> "in" @@ "iowa" :> "ia" @@ "kansas" :> "ks" @@
      "kentucky" :> "ky" @@ "louisiana" :> "la" @@ "maine" :> "me" @@ "maryland" :> "md" @@
      "massachusetts" :> "ma" @@ "michigan" :> "mi" @@ "minnesota" :> "mn" @@ "mississippi" :> "ms" @@
      "missouri" :> "mo" @@ "montana" :> "mt" @@ "nebraska" :> "ne" @@ "nevada" :> "nv" @@
      "new hampshire" :> "nh" @@ "new jersey" :> "nj" @@ "new mexico" :> "nm" @@ "new york" :> "ny" @@
      "north carolina" :> "nc" @@ "north dakota" :> "nd" @@ "ohio" :> "oh" @@ "oklahoma" :> "ok" @@
      "oregon" :> "or" @@ "pennsylvania" :> "pa" @@ "rhode island" :> "ri" @@ "south carolina" :> "sc" @@
      "south dakota" :> "sd" @@ "tennessee" :> "tn" @@ "texas" :> "tx" @@ "utah" :> "ut" @@
      "vermont" :> "vt" @@ "virginia" :> "va" @@ "washington" :> "wa" @@ "west virginia" :> "wv" @@
      "wisconsin" :> "wi" @@ "wyoming" :> "wy" )

\* state_found, for expected_state_lower and formatted_lower
state_found(expected_state_lower, formatted_lower) ==
    \/ Contains(formatted_lower, expected_state_lower)
    \/ Contains(formatted_lower, DictGet(state_abbrev, expected_state_lower, ""))

\* the list post_flags
post_flags(row, location_type, formatted_address) ==
    LET formatted_lower == Lower(formatted_address)
        expected_state == Strip(Str(row.province_state))
        center == IF location_type = "GEOMETRIC_CENTER"
                  THEN <<"Geometric center of area">> ELSE <<>>
        mismatch == IF /\ StrTruthy(formatted_address)
                       /\ notna(row.province_state)
                       /\ StrTruthy(expected_state)
                       /\ ~state_found(Lower(expected_state), formatted_lower)
                    THEN <<"State mismatch (expected " \o expected_state \o ")">> ELSE <<>>
        country == IF /\ StrTruthy(formatted_address)
                      /\ (Contains(formatted_lower, "india") \/ Contains(formatted_lower, "uk")
                          \/ Contains(formatted_lower, "canada"))
                      /\ ~Contains(formatted_lower, "usa")
                      /\ ~Contains(formatted_lower, "united states")
                   THEN <<"UNEXPECTED COUNTRY - verify result!">> ELSE <<>>
    IN center \o mismatch \o country

\* any("UNEXPECTED COUNTRY" in f or "State mismatch" in f for f in post_flags)
HasSeriousFlag(flags) ==
    \E k \in 1..Len(flags) : Contains(flags[k], "UNEXPECTED COUNTRY") \/ Contains(flags[k], "State mismatch")

\* merge_status without the test that the status is OK before it is set to REVIEW
merge_status_always_review(status, flags) ==
    IF flags = <<>> THEN status
    ELSE IF HasSeriousFlag(flags) THEN "WARNING"
    ELSE "REVIEW"

\* flag_status after the update with the post-geocoding flags
merge_status(status, flags) ==
    IF flags = <<>> THEN status
    ELSE IF HasSeriousFlag(flags) THEN "WARNING"
    ELSE IF status = "OK" THEN "REVIEW"
    ELSE status

\* merge_reason assigning the post-geocoding flags over the existing ones
merge_reason_overwrite(existing_flags, flags) ==
    IF flags = <<>> THEN existing_flags ELSE Join("; ", flags)

\* flag_reason after the update with the post-geocoding flags
merge_reason(existing_flags, flags) ==
    IF flags = <<>> THEN existing_flags
    ELSE IF StrTruthy(existing_flags) THEN existing_flags \o "; " \o Join("; ", flags)
    ELSE Join("; ", flags)

\* ------------------------------------------------------------------------
\* The data frame and the CSV files
\* ------------------------------------------------------------------------

TextColumns == {"prec_location", "city", "county", "province_state", "country"}
InputColumns == TextColumns \cup {"latitude", "longitude"}
Columns == InputColumns \cup
    {"geocoded_address", "google_formatted_address", "location_type", "flag_status",
     "flag_reason", "latitude_shifted", "longitude_shifted", "offset_applied"}

\* the value main() gives a column the input file does not have
ColumnDefault(c) ==
    IF c \in {"latitude", "longitude", "latitude_shifted", "longitude_shifted"} THEN NaN ELSE ""

\* pd.read_csv of one cell: an empty cell is NaN
read_cell(text) == IF text = "" THEN NaN ELSE text

\* df.to_csv of one cell: NaN is written as an empty cell
write_cell(v) == IF isna(v) THEN "" ELSE v

\* [+-]?\d+(\.\d*)?$ from the start of the text
NumberText == Cat(<<Opt(Set("+-")), Plus(Digit), Opt(Cat(<<Lit("."), Star(Digit)>>)), EndOfText>>)

\* pd.to_numeric(errors='coerce') of one cell
to_numeric(v) ==
    IF isna(v) \/ M(NumberText, Strip(v), FALSE, <<1, NoGroups>>) = <<>> THEN NaN
    ELSE LET t == Strip(v)
         IN IF CharAt(t, 1) = "+" THEN PyFloat(SubSeq(t, 2, Len(t))) ELSE PyFloat(t)

\* The data frame main() works on, from the rows of the input file: the
\* cells read, latitude and longitude made numeric, the missing columns added.
load(file) ==
    [i \in 1..Len(file) |->
        [c \in Columns |->
            IF c \in DOMAIN file[i]
            THEN IF c \in {"latitude", "longitude"}
                 THEN to_numeric(read_cell(file[i][c]))
                 ELSE read_cell(file[i][c])
            ELSE ColumnDefault(c)]]

\* df.to_csv(output_file, index=False)
to_csv(frame) == [i \in 1..Len(frame) |-> [c \in Columns |-> write_cell(frame[i][c])]]

\* the file that was never written
NoFile == <<[written |-> FALSE]>>

\* ------------------------------------------------------------------------
\* The inputs of the model: rows of the input file, answers of the provider
\* ------------------------------------------------------------------------

InputRow(prec, city, county, state, country, lat, lon) ==
    [prec_location |-> prec, city |-> city, county |-> county, province_state |-> state,
     country |-> country, latitude |-> lat, longitude |-> lon]

\* rows an input file may hold (an empty cell is "")
SampleRows ==
    { InputRow("10 mi N of Topeka", "", "", "KS", "", "", ""),
      InputRow("5 miles west of Denver", "", "Denver", "Colorado", "USA", "", ""),
      InputRow("", "", "Shawnee", "Kansas", "", "", ""),
      InputRow("", "Topeka", "", "Kansas", "", "39.05", "-95.68"),
      InputRow("", "Lake City", "", "", "", "30.19", ""),
      InputRow("Old Mill", "Toronto", "", "Ontario", "Canada", "", "") }

\* the longest input file of the model
MaxRows == 2

InputFiles == UNION {[1..n -> SampleRows] : n \in 1..MaxRows}

ApiKeys == {"YOUR_GOOGLE_API_KEY_HERE", "", "a-key"}

Result(lat, lng, location_type, formatted_address) ==
    [geometry |-> TRUE, lat |-> lat, lng |-> lng, location_type |-> location_type,
     formatted_address |-> formatted_address]

Answer(exc, status, results) == [exc |-> exc, status |-> status, results |-> results]

\* status OK with a first result
SuccessResponses ==
    { Answer("", "OK", <<Result("39.05", "-95.68", "APPROXIMATE", "Topeka, KS, USA")>>),
      Answer("", "OK", <<Result("39.74", "-104.99", "GEOMETRIC_CENTER", "Denver, CO, USA")>>),
      Answer("", "OK", <<Result("43.65", "-79.38", None, "Toronto, ON, Canada")>>),
      Answer("", "OK", <<Result("0", "-78.46", "ROOFTOP", "Quito, Ecuador")>>),
      Answer("", "OK", <<Result("51.48", "0.0", "APPROXIMATE", None)>>) }

\* ZeroResults, Denied, OverLimit, OtherStatus, TransportFailure, ParseFailure
FailureResponses ==
    { Answer("", "ZERO_RESULTS", <<>>),
      Answer("", "REQUEST_DENIED", <<>>),
      Answer("", "OVER_QUERY_LIMIT", <<>>),
      Answer("", "UNKNOWN_ERROR", <<>>),
      Answer("RequestException", "", <<>>),
      Answer("ValueError", "", <<>>),
      Answer("", "OK", <<[geometry |-> FALSE]>>) }

Responses == SuccessResponses \cup FailureResponses

NoResponse == Answer("", "", <<>>)

\* ------------------------------------------------------------------------
\* The values of the script's functions on the rows of the model, tabulated
\* (each reads only the text columns of a row)
\* ------------------------------------------------------------------------

TextOf(row) == [c \in TextColumns |-> row[c]]

SampleTexts == {TextOf(load(<<r>>)[1]) : r \in SampleRows}

FlagTable == [t \in SampleTexts |-> flag_potential_issues(t)]
AddressTable == [t \in SampleTexts |-> construct_address(t)]
BaseTable == [t \in SampleTexts |-> extract_base_location(construct_address(t))]
OffsetTable == [t \in SampleTexts |-> parse_directional_offset(Strip(Str(t.prec_location)))]

\* <<location_type, formatted_address>> of what geocode_address_google may return
SampleResults ==
    {<<geocode_address_google(resp)[3], geocode_address_google(resp)[4]>> : resp \in Responses}

PostFlagTable == [t \in SampleTexts |-> [r \in SampleResults |-> post_flags(t, r[1], r[2])]]

\* ------------------------------------------------------------------------
\* main
\* ------------------------------------------------------------------------

VARIABLES
    input,              \* the rows of the input file of this run
    api_key,            \* GOOGLE_API_KEY
    run,                \* "first", or "rerun": the script run again on its output
    df,                 \* the data frame
    pc,                 \* where main() is: preflag, loop, done, returned, exit
    idx,                \* the row the pre-processing loop or the geocoding loop is at
    needs_geocoding,    \* per row, should_geocode(row) when the loop starts
    pre,                \* the data frame as the pre-processing loop left it
    geocoded_count,
    skipped_vague,
    failed_count,
    calls,              \* the calls of geocode_address_google of this run, in order
    response,           \* what the provider answered to the last call
    output,             \* the rows of the output file, NoFile before it is written
    unit                \* one function of the script applied on its own: its argument and result

main_vars == <<input, api_key, run, df, pc, idx, needs_geocoding, pre, geocoded_count,
               skipped_vague, failed_count, calls, response, output>>

vars == <<main_vars, unit>>

\* no function applied on its own
NoUnit == [fn |-> "none"]

Init ==
    /\ input \in InputFiles
    /\ api_key \in ApiKeys
    /\ run = "first"
    /\ df = load(input)
    /\ pc = "preflag"
    /\ idx = 1
    /\ needs_geocoding = <<>>
    /\ pre = <<>>
    /\ geocoded_count = 0
    /\ skipped_vague = 0
    /\ failed_count = 0
    /\ calls = <<>>
    /\ response = NoResponse
    /\ output = NoFile
    /\ unit = NoUnit

\* for idx, row in df.iterrows(): one row of the pre-processing loop
PreFlag ==
    /\ UNCHANGED unit
    /\ pc = "preflag"
    /\ idx <= Len(df)
    /\ LET flagged == FlagTable[TextOf(df[idx])]
       IN df' = [df EXCEPT ![idx].flag_status = flagged[1], ![idx].flag_reason = flagged[2]]
    /\ idx' = idx + 1
    /\ UNCHANGED <<input, api_key, run, pc, needs_geocoding, pre, geocoded_count,
                   skipped_vague, failed_count, calls, response, output>>

\* NextNeeded iterating over df instead of df[needs_geocoding]
NextRow(needs, i) == IF i <= Len(needs) THEN i ELSE Len(needs) + 1

\* the next row of df[needs_geocoding] from row i on; Len + 1 when there is none
NextNeeded(needs, i) ==
    LET left == {j \in i..Len(needs) : needs[j]}
    IN IF left = {} THEN Len(needs) + 1 ELSE CHOOSE j \in left : \A k \in left : j <= k

\* after the pre-processing loop: count the rows that need geocoding, return
\* when there is none, exit when the API key is not set, else start the loop
CountNeeds ==
    /\ UNCHANGED unit
    /\ pc = "preflag"
    /\ idx > Len(df)
    /\ LET needs == [i \in 1..Len(df) |-> should_geocode(df[i])]
           total_to_geocode == Cardinality({i \in 1..Len(df) : needs[i]})
       IN /\ needs_geocoding' = needs
          /\ IF total_to_geocode = 0 THEN pc' = "returned" /\ idx' = idx
             ELSE IF api_key = "YOUR_GOOGLE_API_KEY_HERE" \/ ~StrTruthy(api_key)
                  THEN pc' = "exit" /\ idx' = idx
             ELSE pc' = "loop" /\ idx' = NextNeeded(needs, 1)
    /\ pre' = df
    /\ geocoded_count' = 0
    /\ skipped_vague' = 0
    /\ failed_count' = 0
    /\ UNCHANGED <<input, api_key, run, df, calls, response, output>>

\* SkipVague without skipped_vague += 1
SkipVagueUncounted ==
    /\ UNCHANGED unit
    /\ pc = "loop"
    /\ idx <= Len(df)
    /\ is_too_vague(df[idx])
    /\ idx' = NextNeeded(needs_geocoding, idx + 1)
    /\ UNCHANGED <<input, api_key, run, df, pc, needs_geocoding, pre, geocoded_count,
                   skipped_vague, failed_count, calls, response, output>>

\* if is_too_vague(row): skipped_vague += 1; continue
SkipVague ==
    /\ UNCHANGED unit
    /\ pc = "loop"
    /\ idx <= Len(df)
    /\ is_too_vague(df[idx])
    /\ skipped_vague' = skipped_vague + 1
    /\ idx' = NextNeeded(needs_geocoding, idx + 1)
    /\ UNCHANGED <<input, api_key, run, df, pc, needs_geocoding, pre, geocoded_count,
                   failed_count, calls, response, output>>

\* the row after a successful geocode_address_google: the coordinates, the
\* shifted coordinates when an offset is parsed, the post-geocoding flags
Geocoded(row, address, lat, lon, location_type, formatted_address) ==
    LET offset == OffsetTable[TextOf(row)]
        distance == offset[1]
        bearing == offset[2]
        shift == StrTruthy(Strip(Str(row.prec_location))) /\ NumTruthy(distance) /\ NumTruthy(bearing)
        shifted == apply_offset(lat, lon, distance, bearing)
        flags == PostFlagTable[TextOf(row)][<<location_type, formatted_address>>]
    IN [row EXCEPT
            !.latitude = lat,
            !.longitude = lon,
            !.geocoded_address = address,
            !.google_formatted_address = formatted_address,
            !.location_type = location_type,
            !.latitude_shifted = IF shift THEN shifted[1] ELSE @,
            !.longitude_shifted = IF shift THEN shifted[2] ELSE @,
            !.offset_applied = IF shift THEN distance \o "mi at " \o bearing \o "°" ELSE @,
            !.flag_reason = merge_reason(@, flags),
            !.flag_status = merge_status(@, flags)]

\* if lat and lon
IsSuccess(lat, lon) == NumTruthy(lat) /\ NumTruthy(lon)

\* GeocodeRow without the test `if lat and lon`: the result is written to
\* the row whatever it is
GeocodeRowUnchecked(resp) ==
    LET row == df[idx]
        address == AddressTable[TextOf(row)]
        base_address == BaseTable[TextOf(row)]
        got == geocode_address_google(resp)
    IN /\ calls' = Append(calls, [row |-> idx, address |-> base_address])
       /\ response' = resp
       /\ df' = [df EXCEPT ![idx] = Geocoded(row, address, got[1], got[2], got[3], got[4])]
       /\ geocoded_count' = geocoded_count + 1
       /\ UNCHANGED <<skipped_vague, failed_count>>

\* one row of the geocoding loop that is not too vague, the provider
\* answering resp when it is called
GeocodeRow(resp) ==
    LET row == df[idx]
        address == AddressTable[TextOf(row)]
        base_address == BaseTable[TextOf(row)]
        got == geocode_address_google(resp)
    IN IF ~StrTruthy(address)
       THEN /\ skipped_vague' = skipped_vague + 1
            /\ UNCHANGED <<df, geocoded_count, failed_count, calls, response>>
       ELSE /\ calls' = Append(calls, [row |-> idx, address |-> base_address])
            /\ response' = resp
            /\ IF IsSuccess(got[1], got[2])
               THEN /\ df' = [df EXCEPT ![idx] = Geocoded(row, address, got[1], got[2], got[3], got[4])]
                    /\ geocoded_count' = geocoded_count + 1
                    /\ UNCHANGED <<skipped_vague, failed_count>>
               ELSE /\ failed_count' = failed_count + 1
                    /\ UNCHANGED <<df, geocoded_count, skipped_vague>>

Geocode ==
    /\ UNCHANGED unit
    /\ pc = "loop"
    /\ idx <= Len(df)
    /\ ~is_too_vague(df[idx])
    /\ \E resp \in Responses : GeocodeRow(resp)
    /\ idx' = NextNeeded(needs_geocoding, idx + 1)
    /\ UNCHANGED <<input, api_key, run, pc, needs_geocoding, pre, output>>

\* after the loop: df.to_csv(output_file)
Save ==
    /\ UNCHANGED unit
    /\ pc = "loop"
    /\ idx > Len(df)
    /\ output' = to_csv(df)
    /\ pc' = "done"
    /\ UNCHANGED <<input, api_key, run, df, idx, needs_geocoding, pre, geocoded_count,
                   skipped_vague, failed_count, calls, response>>

\* the script run again, on the file the first run wrote
Rerun ==
    /\ UNCHANGED unit
    /\ pc = "done"
    /\ run = "first"
    /\ run' = "rerun"
    /\ input' = output
    /\ df' = load(output)
    /\ pc' = "preflag"
    /\ idx' = 1
    /\ needs_geocoding' = <<>>
    /\ pre' = <<>>
    /\ geocoded_count' = 0
    /\ skipped_vague' = 0
    /\ failed_count' = 0
    /\ calls' = <<>>
    /\ response' = NoResponse
    /\ UNCHANGED <<api_key, output>>

Next == PreFlag \/ CountNeeds \/ SkipVague \/ Geocode \/ Save \/ Rerun

Spec == Init /\ [][Next]_vars

\* ------------------------------------------------------------------------
\* flag_potential_issues on its own, over rows of every kind of text
\* ------------------------------------------------------------------------

FlagPrecs ==
    { NaN, "  ", "10 mi N of Topeka", "10 mi E of Salina", "5 miles west of Denver, CO", "5 mi ne of Salida",
      "ABC", "I.S.B", "Ranch HQ", "near the old mill", "Bear Lake (north shore)",
      "Rocky Mountain National Park, Bear Lake trailhead", "Dunes" }
FlagCities == {NaN, "Topeka", "Forest Park East"}
FlagCounties == {NaN, "Shawnee", "Cook/Lake"}
FlagStates == {NaN, "Kansas", "KS"}

FlagRows ==
    {[prec_location |-> p, city |-> c, county |-> co, province_state |-> s, country |-> NaN] :
        p \in FlagPrecs, c \in FlagCities, co \in FlagCounties, s \in FlagStates}

\* main() not started
Idle ==
    /\ input = <<>>
    /\ api_key = ""
    /\ run = "first"
    /\ df = <<>>
    /\ pc = "idle"
    /\ idx = 1
    /\ needs_geocoding = <<>>
    /\ pre = <<>>
    /\ geocoded_count = 0
    /\ skipped_vague = 0
    /\ failed_count = 0
    /\ calls = <<>>
    /\ response = NoResponse
    /\ output = NoFile

FlagInit ==
    /\ Idle
    /\ \E row \in FlagRows : unit = [fn |-> "flag_potential_issues", row |-> row, called |-> FALSE]

\* flag_status, flag_reason = flag_potential_issues(row)
ApplyFlags ==
    /\ unit.fn = "flag_potential_issues"
    /\ ~unit.called
    /\ LET result == flag_potential_issues(unit.row)
       IN unit' = [fn |-> "flag_potential_issues", row |-> unit.row, called |-> TRUE,
                   flags |-> Flags(unit.row), flag_status |-> result[1], flag_reason |-> result[2]]
    /\ UNCHANGED main_vars

FlagSpec == FlagInit /\ [][ApplyFlags]_vars

\* ------------------------------------------------------------------------
\* construct_address on its own, over rows of every kind of text
\* ------------------------------------------------------------------------

AddressPrecs == {NaN, "  ", "Old Mill"}
AddressCities == {NaN, "Topeka"}
AddressCounties == {NaN, "Shawnee", "Cook County"}
AddressStates == {NaN, " KS "}
AddressCountries == {NaN, "  ", "Canada"}

AddressRows ==
    {[prec_location |-> p, city |-> c, county |-> co, province_state |-> s, country |-> cn] :
        p \in AddressPrecs, c \in AddressCities, co \in AddressCounties,
        s \in AddressStates, cn \in AddressCountries}

AddressInit ==
    /\ Idle
    /\ \E row \in AddressRows : unit = [fn |-> "construct_address", row |-> row, called |-> FALSE]

\* address = construct_address(row)
ApplyAddress ==
    /\ unit.fn = "construct_address"
    /\ ~unit.called
    /\ unit' = [fn |-> "construct_address", row |-> unit.row, called |-> TRUE,
                address |-> construct_address(unit.row)]
    /\ UNCHANGED main_vars

AddressSpec == AddressInit /\ [][ApplyAddress]_vars

\* ------------------------------------------------------------------------
\* extract_base_location and parse_directional_offset on the same text
\* ------------------------------------------------------------------------

OffsetDistances == {"5", "2.5"}
OffsetUnits == {"mi", " miles", "km"}
OffsetDirections == {"N", "nnw", "EEE", "west", "Northeast", "X"}
OffsetJoins == {" of ", " of", " from "}
OffsetBases == {"Salida", ""}

OffsetTexts ==
    {d \o u \o " " \o dir \o j \o b :
        d \in OffsetDistances, u \in OffsetUnits, dir \in OffsetDirections,
        j \in OffsetJoins, b \in OffsetBases}

OffsetInit ==
    /\ Idle
    /\ \E text \in OffsetTexts : unit = [fn |-> "directional_offset", text |-> text, called |-> FALSE]

\* base_address = extract_base_location(text)
\* distance, bearing = parse_directional_offset(text)
ApplyOffsetFunctions ==
    /\ unit.fn = "directional_offset"
    /\ ~unit.called
    /\ unit' = [fn |-> "directional_offset", text |-> unit.text, called |-> TRUE,
                base_location |-> extract_base_location(unit.text),
                offset |-> parse_directional_offset(unit.text)]
    /\ UNCHANGED main_vars

OffsetSpec == OffsetInit /\ [][ApplyOffsetFunctions]_vars

\* ------------------------------------------------------------------------
\* Properties
\* ------------------------------------------------------------------------

\* OK < REVIEW < WARNING
Rank(status) == CASE status = "OK" -> 0 [] status = "REVIEW" -> 1 [] status = "WARNING" -> 2

\* main() is in or past the geocoding loop
InLoopOrDone == pc \in {"loop", "done"}

\* row i lacked a coordinate when the loop started and has both now
GeocodedThisRun(i) == should_geocode(pre[i]) /\ ~should_geocode(df[i])

\* C1: in every run, each row's flag_status in and after the geocoding loop
\* is at least its flag_status after the pre-processing loop, in the order
\* OK < REVIEW < WARNING.
C1_MergeNeverLowersStatus ==
    InLoopOrDone =>
        \A i \in 1..Len(df) : Rank(df[i].flag_status) >= Rank(pre[i].flag_status)

\* a row at REVIEW or WARNING before the loop that received post-geocoding
\* flags and kept its status
C1_Witness ==
    /\ InLoopOrDone
    /\ \E i \in 1..Len(df) :
        /\ GeocodedThisRun(i)
        /\ pre[i].flag_status \in {"REVIEW", "WARNING"}
        /\ df[i].flag_reason # pre[i].flag_reason
        /\ df[i].flag_status = pre[i].flag_status

\* C2 (as claimed): when the re-run ends, every row that had both
\* coordinates in its input was not sent to the provider and is in the
\* output file as it was in the input file, flag_status and flag_reason
\* included.
C2_RerunLeavesGeocodedRows ==
    (run = "rerun" /\ pc \in {"done", "returned", "exit"}) =>
        \A i \in 1..Len(input) :
            (input[i].latitude # "" /\ input[i].longitude # "") =>
                /\ \A k \in 1..Len(calls) : calls[k].row # i
                /\ output[i] = input[i]

\* a directional offset is detected in the row's prec_location
OffsetDetected(row) == OffsetTable[TextOf(row)] # <<None, None>>

\* C3 (as claimed): when the first run has saved, a row has latitude_shifted
\* and longitude_shifted both set if an offset is detected in its
\* prec_location and the row was geocoded, and both unset otherwise.
C3_ShiftedIffOffsetAndGeocoded ==
    (run = "first" /\ pc = "done") =>
        \A i \in 1..Len(df) :
            /\ notna(df[i].latitude_shifted) <=> notna(df[i].longitude_shifted)
            /\ notna(df[i].latitude_shifted) <=> (OffsetDetected(df[i]) /\ GeocodedThisRun(i))

\* the rows called so far, in call order
CallRows == [k \in 1..Len(calls) |-> calls[k].row]

\* the rows that lack a coordinate and have a city or a prec_location, in input order
Candidates ==
    SelectSeq([i \in 1..Len(df) |-> i],
              LAMBDA i : should_geocode(pre[i]) /\ ~is_too_vague(pre[i]))

\* C4: in a run that reaches the geocoding loop (the API key is set), the
\* provider calls made so far are, in order and once each, the candidate
\* rows the loop has passed; when the run has saved they are all the
\* candidate rows.  Before the loop, and in a run that returns or exits
\* before it, no call is made.
C4_CallsAreCandidatesInOrder ==
    /\ ~InLoopOrDone => calls = <<>>
    /\ InLoopOrDone => CallRows = SelectSeq(Candidates, LAMBDA i : i < idx)
    /\ pc = "done" => CallRows = Candidates

\* a finished run of two rows with calls where the first row was not called
\* and the second was called once and failed
C4_Witness ==
    /\ pc = "done"
    /\ Len(df) = 2
    /\ CallRows = <<2>>
    /\ failed_count = 1

\* C5: a step in which the provider is called and answers with a failure
\* leaves the whole row as it was (each unset coordinate still unset, the
\* flags those of the pre-processing loop), adds one to failed_count and to
\* no other counter, and the loop goes on with the next row to geocode.
C5_FailureLeavesRow ==
    [][(calls' # calls /\ response' \in FailureResponses) =>
            /\ df' = df
            /\ should_geocode(df'[idx])
            /\ df'[idx].flag_status = pre[idx].flag_status
            /\ df'[idx].flag_reason = pre[idx].flag_reason
            /\ failed_count' = failed_count + 1
            /\ geocoded_count' = geocoded_count
            /\ skipped_vague' = skipped_vague
            /\ pc' = "loop"
            /\ idx' = NextNeeded(needs_geocoding, idx + 1)]_vars

\* a finished run in which a call failed and a later row was still geocoded
C5_Witness ==
    /\ pc = "done"
    /\ failed_count = 1
    /\ geocoded_count = 1
    /\ response \in SuccessResponses
    /\ Len(calls) = 2

\* C6 (as claimed): a step in which the provider is called and answers OK
\* with a result populates the row's latitude, longitude, location_type and
\* google_formatted_address from the result, merges the post-geocoding
\* flags, and counts the row as geocoded, not failed.
C6_SuccessPopulatesRow ==
    [][(calls' # calls /\ response' \in SuccessResponses) =>
            LET result == response'.results[1]
                location_type == IF result.location_type = None THEN "UNKNOWN" ELSE result.location_type
                formatted_address == IF result.formatted_address = None THEN "" ELSE result.formatted_address
                flags == post_flags(df[idx], location_type, formatted_address)
            IN /\ df'[idx].latitude = PyFloat(result.lat)
               /\ df'[idx].longitude = PyFloat(result.lng)
               /\ df'[idx].location_type = location_type
               /\ df'[idx].google_formatted_address = formatted_address
               /\ df'[idx].flag_reason = merge_reason(df[idx].flag_reason, flags)
               /\ geocoded_count' = geocoded_count + 1
               /\ failed_count' = failed_count]_vars

StartsWith(s, prefix) == Len(prefix) <= Len(s) /\ SubSeq(s, 1, Len(prefix)) = prefix
IsStateMismatch(flag) == StartsWith(flag, "State mismatch (expected ")
IsUnexpectedCountry(flag) == flag = "UNEXPECTED COUNTRY - verify result!"

\* C7: for every row geocoded in this run, with the post-geocoding flags of
\* its result: flag_status is WARNING if one of them is a state mismatch or
\* an unexpected country, else REVIEW if there is one and the status before
\* the loop was OK, else the status before the loop; and flag_reason is the
\* reason before the loop followed by the post-geocoding flags, "; " between
\* the entries.
C7_MergeRule ==
    InLoopOrDone =>
        \A i \in 1..Len(df) : GeocodedThisRun(i) =>
            LET flags == PostFlagTable[TextOf(df[i])][<<df[i].location_type, df[i].google_formatted_address>>]
                serious == \E k \in 1..Len(flags) : IsStateMismatch(flags[k]) \/ IsUnexpectedCountry(flags[k])
                before == pre[i]
                between == IF before.flag_reason # "" /\ flags # <<>> THEN "; " ELSE ""
            IN /\ df[i].flag_status =
                    (IF serious THEN "WARNING"
                     ELSE IF flags # <<>> /\ before.flag_status = "OK" THEN "REVIEW"
                     ELSE before.flag_status)
               /\ df[i].flag_reason = before.flag_reason \o between \o Join("; ", flags)

\* a row with reasons before the loop and a status below WARNING, forced to
\* WARNING by its post-geocoding flags
C7_Witness ==
    /\ InLoopOrDone
    /\ \E i \in 1..Len(df) :
        /\ GeocodedThisRun(i)
        /\ pre[i].flag_reason # ""
        /\ pre[i].flag_status = "REVIEW"
        /\ df[i].flag_status = "WARNING"
        /\ Len(df[i].flag_reason) > Len(pre[i].flag_reason)

CriticalFlags ==
    {"County/state only - very vague", "Missing state - may be ambiguous"}
InformationalFlags ==
    {"Water feature - may use centerline/centroid",
     "Park/natural area (just name - may use geometric center)",
     "Park/natural area with detail (may still use center)",
     "Contains parenthetical info - may confuse geocoder"}
SingleReviewFlags ==
    {"Directional offset - API may ignore distance/direction",
     "Vague reference point (behind/at/vic/near)",
     "Abbreviated location name",
     "Possible acronym/abbreviation"}

\* the status C8 gives a list of flags
ClaimedStatus(flags) ==
    IF \E k \in 1..Len(flags) : flags[k] \in CriticalFlags THEN "WARNING"
    ELSE IF Len(flags) >= 2
         THEN IF \A k \in 1..Len(flags) : flags[k] \in InformationalFlags THEN "OK" ELSE "REVIEW"
    ELSE IF Len(flags) = 1 /\ flags[1] \in SingleReviewFlags THEN "REVIEW"
    ELSE "OK"

\* C8 (as claimed): flag_potential_issues returns WARNING when a critical
\* flag fired; else, with two or more flags, OK when all are informational
\* and REVIEW otherwise; else, with one flag, REVIEW when it is directional
\* offset, vague reference, "Abbreviated location name" or "Possible
\* acronym/abbreviation" and OK otherwise; and OK with an empty reason when
\* no flag fired.
C8_StatusOfFlags ==
    (unit.fn = "flag_potential_issues" /\ unit.called) =>
        /\ unit.flag_status = ClaimedStatus(unit.flags)
        /\ unit.flags = <<>> => unit.flag_reason = ""

\* only county and province_state are set
OnlyCountyAndState(row) ==
    /\ ~HasField(row, "city")
    /\ ~HasField(row, "prec_location")
    /\ HasField(row, "county")
    /\ HasField(row, "province_state")

\* C9 (as claimed): a row with only county and province_state set gets
\* WARNING and reasons with both the County/state only marker and the
\* Missing state marker.
C9_CountyStateOnlyBothMarkers ==
    (unit.fn = "flag_potential_issues" /\ unit.called /\ OnlyCountyAndState(unit.row)) =>
        /\ unit.flag_status = "WARNING"
        /\ Contains(unit.flag_reason, "County/state only")
        /\ Contains(unit.flag_reason, "Missing state")

\* C9 (amended): a row with only county and province_state set gets WARNING
\* and reasons with the County/state only marker and without the Missing
\* state marker.
C9_CountyStateOnlyVagueMarker ==
    (unit.fn = "flag_potential_issues" /\ unit.called /\ OnlyCountyAndState(unit.row)) =>
        /\ unit.flag_status = "WARNING"
        /\ Contains(unit.flag_reason, "County/state only")
        /\ ~Contains(unit.flag_reason, "Missing state")

\* flag_potential_issues was applied to a row with only county and province_state set
C9_Witness ==
    /\ unit.fn = "flag_potential_issues"
    /\ unit.called
    /\ OnlyCountyAndState(unit.row)

\* C10 (as claimed): for every row geocoded in this run whose province_state
\* is present, the reasons hold "State mismatch (expected X)" exactly when
\* neither the state's text nor, for a state of the table, its abbreviation
\* is in the formatted address, ignoring case.
C10_StateMismatchIffAbsent ==
    InLoopOrDone =>
        \A i \in 1..Len(df) : (GeocodedThisRun(i) /\ HasField(df[i], "province_state")) =>
            LET expected_state == Strip(Str(df[i].province_state))
                name == Lower(expected_state)
                formatted == Lower(df[i].google_formatted_address)
                appears == \/ Contains(formatted, name)
                           \/ (name \in DOMAIN state_abbrev /\ Contains(formatted, state_abbrev[name]))
            IN Contains(df[i].flag_reason, "State mismatch (expected " \o expected_state \o ")")
                    <=> ~appears

\* the parts of the row that are present, stripped, in the order
\* prec_location, city, county, province_state, country
NonEmptyParts(row) ==
    LET part(f) == IF HasField(row, f) THEN <<Strip(Str(row[f]))>> ELSE <<>>
    IN part("prec_location") \o part("city") \o part("county") \o part("province_state") \o part("country")

\* C11 (as claimed): construct_address returns None when none of
\* prec_location, city, county, province_state and country is present, and
\* otherwise the parts that are present, in that order, joined with ", ".
C11_AddressOfNonEmptyParts ==
    (unit.fn = "construct_address" /\ unit.called) =>
        LET parts == NonEmptyParts(unit.row)
        IN unit.address = (IF parts = <<>> THEN None ELSE Join(", ", parts))

\* the API key test of main() passes
ApiKeySet == api_key # "YOUR_GOOGLE_API_KEY_HERE" /\ StrTruthy(api_key)

\* C12 (as claimed): when a first run with the API key set ends, by saving
\* or by returning because no row needs geocoding, the output file holds one
\* row per row of the input file, in the order of the input file.
C12_OutputRowPerInputRow ==
    (run = "first" /\ ApiKeySet /\ pc \in {"done", "returned", "exit"}) =>
        /\ output # NoFile
        /\ Len(output) = Len(input)
        /\ \A i \in 1..Len(input) : \A c \in TextColumns : output[i][c] = input[i][c]

\* C13 (as claimed): extract_base_location returns a string other than its
\* text exactly when parse_directional_offset reports an offset for the same
\* text, and returns the text itself when it reports none.
C13_StripsIffDetects ==
    (unit.fn = "directional_offset" /\ unit.called) =>
        LET detected == unit.offset # <<None, None>>
        IN /\ (unit.base_location # unit.text) <=> detected
           /\ ~detected => unit.base_location = unit.text

\* C14 (as claimed): when parse_directional_offset reports an offset for the
\* row's prec_location, flag_potential_issues raises the "Directional
\* offset" flag for the row.
C14_DetectedOffsetIsFlagged ==
    (unit.fn = "flag_potential_issues" /\ unit.called) =>
        LET prec_location == Strip(Str(unit.row.prec_location))
            detected == /\ StrTruthy(prec_location)
                        /\ parse_directional_offset(prec_location) # <<None, None>>
        IN detected => Contains(unit.flag_reason, "Directional offset")

\* the rows that lacked a coordinate when the loop started
Needed == {i \in 1..Len(needs_geocoding) : needs_geocoding[i]}

\* the counters of a run do not change, or one of them grows by one
OneCounted ==
    \/ UNCHANGED <<geocoded_count, skipped_vague, failed_count>>
    \/ geocoded_count' = geocoded_count + 1 /\ UNCHANGED <<skipped_vague, failed_count>>
    \/ skipped_vague' = skipped_vague + 1 /\ UNCHANGED <<geocoded_count, failed_count>>
    \/ failed_count' = failed_count + 1 /\ UNCHANGED <<geocoded_count, skipped_vague>>

\* C15: in and after the geocoding loop, geocoded_count + skipped_vague +
\* failed_count is the number of rows lacking a coordinate that the loop has
\* passed, so at the end of the run the number of all such rows; and within
\* a run each step leaves the counters alone or adds one to exactly one of
\* them, a step of the loop adding one.
C15_EachNeededRowCountedOnce ==
    /\ [](InLoopOrDone =>
            geocoded_count + skipped_vague + failed_count
                = Cardinality({i \in Needed : i < idx}))
    /\ [](pc = "done" =>
            geocoded_count + skipped_vague + failed_count = Cardinality(Needed))
    /\ [][(pc = "loop" /\ run' = run) =>
            /\ OneCounted
            /\ idx' # idx =>
                  geocoded_count' + skipped_vague' + failed_count'
                      = geocoded_count + skipped_vague + failed_count + 1]_vars

\* a finished run of two rows, one skipped as too vague and one failed
C15_Witness ==
    /\ pc = "done"
    /\ Cardinality(Needed) = 2
    /\ skipped_vague = 1
    /\ failed_count = 1

\* the rows the loop has passed without calling the provider
SkippedRows == {i \in Needed : i < idx /\ \A k \in 1..Len(calls) : calls[k].row # i}

\* C16: when the run has saved, every row the loop skipped is too vague, has
\* flag_status WARNING and "County/state only" in flag_reason, and has its
\* coordinates, geocoded_address, location_type, google_formatted_address
\* and shifted coordinates as they were read from the input file.
C16_SkippedRowsWarned ==
    pc = "done" =>
        \A i \in SkippedRows :
            LET read == load(input)[i]
            IN /\ ~HasField(df[i], "city") /\ ~HasField(df[i], "prec_location")
               /\ df[i].flag_status = "WARNING"
               /\ Contains(df[i].flag_reason, "County/state only")
               /\ \A c \in {"latitude", "longitude", "geocoded_address", "location_type",
                             "google_formatted_address", "latitude_shifted",
                             "longitude_shifted", "offset_applied"} : df[i][c] = read[c]

\* a finished run in which a row was skipped as too vague and another geocoded
C16_Witness ==
    /\ pc = "done"
    /\ SkippedRows # {}
    /\ skipped_vague = 1
    /\ geocoded_count = 1

====
